---- MODULE Spec2Model ----
(***************************************************************************)
(* Model of shark_mvp.py: the shark presence estimator shark_probability,  *)
(* its helpers, and the HTTP handler SharkRequestHandler.do_GET.           *)
(*                                                                         *)
(* Numbers.  Python floats are binary64: every arithmetic result is        *)
(* rounded to 53 significant bits.  The model keeps the same arithmetic    *)
(* (round to nearest, ties to even, after every operation) in a narrower   *)
(* binary format: PREC significant bits and a smallest spacing of 1/SCALE. *)
(* A finite float is the integer number of 1/SCALE units it holds.  The    *)
(* effects of rounding that the program shows in binary64 (absorption in   *)
(* lon + 180.0, a haversine term a little above 1) appear in the narrow    *)
(* format at the corresponding places.                                     *)
(***************************************************************************)
EXTENDS Integers, Sequences, FiniteSets, TLC

SCALE == 2^12
PREC == 2^19

(***************************************************************************)
(* Rounded arithmetic                                                      *)
(***************************************************************************)
Abs(n) == IF n < 0 THEN -n ELSE n

Sgn(n) == IF n < 0 THEN -1 ELSE 1

\* n / d rounded to the nearest integer, ties to even (n >= 0, d > 0)
RN(n, d) ==
    LET q == n \div d
        r == n - q * d
    IN  IF 2 * r < d THEN q
        ELSE IF 2 * r > d THEN q + 1
        ELSE IF q % 2 = 0 THEN q ELSE q + 1

\* signed version of RN: rounds the magnitude, keeps the sign
SRN(n, d) == Sgn(n) * RN(Abs(n), d)

RECURSIVE Quantum(_, _)
Quantum(m, q) == IF m \div q < PREC THEN q ELSE Quantum(m, 2 * q)

\* round an exact result to the float format: PREC significant bits
Fl(n) ==
    LET q == Quantum(Abs(n), 1)
    IN  Sgn(n) * RN(Abs(n), q) * q

\* the float nearest to the decimal literal n/d
Dec(n, d) == Fl(SRN(n * SCALE, d))

Deg(n) == n * SCALE

FAdd(a, b) == Fl(a + b)

FSub(a, b) == Fl(a - b)

FMul(a, b) == Fl(SRN(a * b, SCALE))

FDiv(a, b) == Fl(Sgn(a) * Sgn(b) * RN(Abs(a) * SCALE, Abs(b)))

\* x ** 2, the product formed in two halves to stay within machine integers
FSq(x) ==
    LET h == Abs(x) \div SCALE
        l == Abs(x) % SCALE
    IN  Fl(h * h * SCALE + 2 * h * l + RN(l * l, SCALE))

\* x % m for m > 0: the exact remainder with the sign of m, then rounded
FMod(x, m) == Fl(x % m)

PI == RN(355 * SCALE, 113)

HALF_PI == RN(PI, 2)

\* math.radians: x * (pi / 180)
radians(x) == Fl(SRN(x * 355, 113 * 180))

RECURSIVE SinSeries(_, _, _, _)
SinSeries(x2, term, k, total) ==
    IF term = 0 \/ k >= 12 THEN total
    ELSE LET next == -SRN(term * x2, SCALE * (2 * k) * (2 * k + 1))
         IN  SinSeries(x2, next, k + 1, total + next)

RECURSIVE CosSeries(_, _, _, _)
CosSeries(x2, term, k, total) ==
    IF term = 0 \/ k >= 12 THEN total
    ELSE LET next == -SRN(term * x2, SCALE * (2 * k - 1) * (2 * k))
         IN  CosSeries(x2, next, k + 1, total + next)

Unit(v) == IF v > SCALE THEN SCALE ELSE IF v < -SCALE THEN -SCALE ELSE v

\* the argument reduced to [-pi, pi)
Reduce(x) == ((x + PI) % (2 * PI)) - PI

\* math.sin
Sin(x) ==
    LET r == Reduce(x)
        f == IF r > HALF_PI THEN PI - r
             ELSE IF r < -HALF_PI THEN -PI - r ELSE r
    IN  Unit(SinSeries(RN(f * f, SCALE), f, 1, f))

\* math.cos
Cos(x) ==
    LET r == Reduce(x)
        f == IF r > HALF_PI THEN PI - r
             ELSE IF r < -HALF_PI THEN -PI - r ELSE r
        c == CosSeries(RN(f * f, SCALE), SCALE, 1, SCALE)
    IN  Unit(IF r > HALF_PI \/ r < -HALF_PI THEN -c ELSE c)

\* the value a failed math call yields in place of a result
MathDomainError == -1

RECURSIVE Newton(_, _)
Newton(n, r) ==
    LET s == (r + n \div r) \div 2
    IN  IF s >= r THEN r ELSE Newton(n, s)

ISqrt(n) == IF n = 0 THEN 0 ELSE Newton(n, n)

\* math.sqrt: raises ValueError ("math domain error") below zero
Sqrt(x) ==
    IF x < 0 THEN MathDomainError
    ELSE LET n == x * SCALE
             r == ISqrt(n)
         IN  IF n - r * r > r THEN r + 1 ELSE r

RECURSIVE AtanSeries(_, _, _, _)
AtanSeries(t2, p, k, total) ==
    IF p = 0 \/ k >= 12 THEN total
    ELSE LET next == -SRN(p * t2, SCALE)
         IN  AtanSeries(t2, next, k + 1, total + SRN(next, 2 * k + 1))

AtanSmall(t) == AtanSeries(RN(t * t, SCALE), t, 1, t)

\* atan(t) for 0 <= t <= 1
Atan01(t) ==
    IF 5 * t <= 2 * SCALE THEN AtanSmall(t)
    ELSE RN(PI, 4) - AtanSmall(RN((SCALE - t) * SCALE, SCALE + t))

\* math.atan2 on the quadrant y >= 0, x >= 0 (both arguments are roots)
Atan2(y, x) ==
    IF x = 0 /\ y = 0 THEN 0
    ELSE IF y <= x THEN Atan01(RN(y * SCALE, x))
    ELSE HALF_PI - Atan01(RN(x * SCALE, y))

\* e^-n for n = 0 .. 9, in units of 1/SCALE
ExpTable == <<4096, 1507, 554, 204, 75, 28, 10, 4, 1, 1>>

RECURSIVE ExpSeries(_, _, _, _)
ExpSeries(f, term, k, total) ==
    IF term = 0 \/ k >= 12 THEN total
    ELSE LET next == -SRN(term * f, SCALE * k)
         IN  ExpSeries(f, next, k + 1, total + next)

\* math.exp(-t) for t >= 0
ExpNeg(t) ==
    LET n == t \div SCALE
        f == t % SCALE
    IN  IF n >= 10 THEN 0
        ELSE RN(ExpTable[n + 1] * ExpSeries(f, SCALE, 1, SCALE), SCALE)

(***************************************************************************)
(* Floats as the program receives them: finite, or NaN / +Inf / -Inf       *)
(***************************************************************************)
Finite(n) == [cls |-> "finite", v |-> n]

NaN == [cls |-> "nan", v |-> 0]

PosInf == [cls |-> "inf", v |-> 1]

NegInf == [cls |-> "inf", v |-> -1]

\* math.isfinite
isfinite(x) == x.cls = "finite"

(***************************************************************************)
(* The constant tables                                                     *)
(***************************************************************************)
Hotspot(name, lat, lon, weight, radius_km) ==
    [name |-> name, lat |-> lat, lon |-> lon, weight |-> weight,
     radius_km |-> radius_km]

HOTSPOTS ==
    << Hotspot("Eastern Australia", -Dec(255, 10), Deg(153), Dec(22, 100), 750),
       Hotspot("South Africa", -Deg(34), Dec(185, 10), Dec(18, 100), 550),
       Hotspot("Hawaii", Dec(209, 10), -Deg(157), Dec(14, 100), 450),
       Hotspot("Florida", Dec(275, 10), -Deg(80), Dec(16, 100), 500),
       Hotspot("California", Deg(34), -Dec(1195, 10), Dec(12, 100), 500),
       Hotspot("Brazil", -Dec(229, 10), -Dec(432, 10), Dec(10, 100), 420),
       Hotspot("Red Sea", Deg(20), Dec(385, 10), Dec(10, 100), 350) >>

LandRegion(lat_min, lat_max, lon_min, lon_max, penalty) ==
    [lat_min |-> lat_min, lat_max |-> lat_max, lon_min |-> lon_min,
     lon_max |-> lon_max, penalty |-> penalty]

\* the table with the Eurasian penalty mistyped as 0.05
LAND_INTERIORS_mild ==
    << LandRegion(Deg(25), Deg(50), -Deg(110), -Deg(90), Dec(35, 100)),
       LandRegion(-Deg(20), Deg(5), -Deg(70), -Deg(50), Dec(40, 100)),
       LandRegion(-Deg(10), Deg(20), Deg(10), Deg(35), Dec(45, 100)),
       LandRegion(Deg(30), Deg(60), Deg(40), Deg(120), Dec(5, 100)),
       LandRegion(-Deg(35), -Deg(15), Deg(120), Deg(145), Dec(65, 100)) >>

LAND_INTERIORS ==
    << LandRegion(Deg(25), Deg(50), -Deg(110), -Deg(90), Dec(35, 100)),
       LandRegion(-Deg(20), Deg(5), -Deg(70), -Deg(50), Dec(40, 100)),
       LandRegion(-Deg(10), Deg(20), Deg(10), Deg(35), Dec(45, 100)),
       LandRegion(Deg(30), Deg(60), Deg(40), Deg(120), Dec(50, 100)),
       LandRegion(-Deg(35), -Deg(15), Deg(120), Deg(145), Dec(65, 100)) >>

(***************************************************************************)
(* The estimator                                                           *)
(***************************************************************************)
Max(a, b) == IF b > a THEN b ELSE a

Min(a, b) == IF b < a THEN b ELSE a

\* clamp with the lower bound forgotten
clamp_no_floor(value, low, high) == Min(high, value)

clamp(value, low, high) == Max(low, Min(high, value))

_wrap_longitude(lon) ==
    LET wrapped == FSub(FMod(FAdd(lon, Deg(180)), Deg(360)), Deg(180))
    IN  IF wrapped # -Deg(180) THEN wrapped ELSE Deg(180)

\* lines 75-76, given math.sqrt(a) and math.sqrt(1 - a)
HaversineArc(root_a, root_b) ==
    LET radius_earth_km == 6371
    IN  IF root_a = MathDomainError \/ root_b = MathDomainError
        THEN MathDomainError
        ELSE Fl(radius_earth_km * FMul(Deg(2), Atan2(root_a, root_b)))

\* lines 75-76, given a
HaversineOf(a) == HaversineArc(Sqrt(a), Sqrt(FSub(SCALE, a)))

_haversine_distance_km(lat1, lon1, lat2, lon2) ==
    LET d_lat == radians(FSub(lat2, lat1))
        d_lon == radians(FSub(lon2, lon1))
    IN  HaversineOf(FAdd(FSq(Sin(FDiv(d_lat, Deg(2)))),
                         FMul(FMul(Cos(radians(lat1)), Cos(radians(lat2))),
                              FSq(Sin(FDiv(d_lon, Deg(2)))))))

_lat_factor(lat) ==
    LET equatorial_bias == FSq(Cos(radians(lat)))
        tropic_span == clamp(FSub(SCALE, FDiv(Abs(lat), Deg(30))), 0, SCALE)
        polar_penalty == clamp(FDiv(FSub(Abs(lat), Deg(50)), Deg(40)), 0, SCALE)
    IN  clamp(FSub(FAdd(FMul(Dec(6, 10), equatorial_bias),
                        FMul(Dec(4, 10), tropic_span)),
                   FMul(Dec(3, 10), polar_penalty)), 0, SCALE)

_current_factor(lat, lon) ==
    LET lon_rad == radians(_wrap_longitude(lon))
        lat_rad == radians(lat)
        warm_current == FMul(Dec(5, 10),
            FAdd(SCALE, FMul(Sin(FMul(lon_rad, Dec(15, 10))), Cos(lat_rad))))
        upwelling == FMul(Dec(5, 10),
            FAdd(SCALE, Cos(FAdd(FMul(lon_rad, Dec(7, 10)), Sin(lat_rad)))))
    IN  clamp(FAdd(FMul(Dec(6, 10), warm_current),
                   FMul(Dec(4, 10), upwelling)), 0, SCALE)

\* the loop of _hotspot_contribution from entry i on; a failed math call
\* leaves the loop at once
RECURSIVE HotspotLoop(_, _, _, _, _)
RECURSIVE HotspotStep(_, _, _, _, _, _)
HotspotLoop(lat, lon, hotspots, i, score) ==
    IF i > Len(hotspots) THEN score
    ELSE HotspotStep(lat, lon, hotspots, i, score,
                     _haversine_distance_km(lat, lon, hotspots[i].lat,
                                            hotspots[i].lon))

\* lines 104-105 for entry i, given its distance
HotspotStep(lat, lon, hotspots, i, score, distance) ==
    IF distance = MathDomainError THEN MathDomainError
    ELSE LET spot == hotspots[i]
             influence == ExpNeg(FSq(RN(distance, spot.radius_km)))
         IN  HotspotLoop(lat, lon, hotspots, i + 1,
                         FAdd(score, FMul(spot.weight, influence)))

\* the loop with the weight of the hotspot left out of the score
RECURSIVE UnweightedLoop(_, _, _, _, _)
RECURSIVE UnweightedStep(_, _, _, _, _, _)
UnweightedLoop(lat, lon, hotspots, i, score) ==
    IF i > Len(hotspots) THEN score
    ELSE UnweightedStep(lat, lon, hotspots, i, score,
                        _haversine_distance_km(lat, lon, hotspots[i].lat,
                                               hotspots[i].lon))

UnweightedStep(lat, lon, hotspots, i, score, distance) ==
    IF distance = MathDomainError THEN MathDomainError
    ELSE UnweightedLoop(lat, lon, hotspots, i + 1,
             FAdd(score, ExpNeg(FSq(RN(distance, hotspots[i].radius_km)))))

_hotspot_contribution_unweighted(lat, lon, hotspots) ==
    UnweightedLoop(lat, lon, hotspots, 1, 0)

_hotspot_contribution(lat, lon, hotspots) ==
    HotspotLoop(lat, lon, hotspots, 1, 0)

Contains(region, lat, lon) ==
    /\ region.lat_min <= lat /\ lat <= region.lat_max
    /\ region.lon_min <= lon /\ lon <= region.lon_max

RECURSIVE LandLoop(_, _, _, _, _)
LandLoop(lat, lon, regions, i, penalty) ==
    IF i > Len(regions) THEN penalty
    ELSE LandLoop(lat, lon, regions, i + 1,
                  IF Contains(regions[i], lat, lon)
                  THEN FAdd(penalty, regions[i].penalty) ELSE penalty)

\* the loop leaving at the first box that contains the point
RECURSIVE FirstMatchLoop(_, _, _, _)
FirstMatchLoop(lat, lon, regions, i) ==
    IF i > Len(regions) THEN 0
    ELSE IF Contains(regions[i], lat, lon) THEN regions[i].penalty
    ELSE FirstMatchLoop(lat, lon, regions, i + 1)

_land_penalty_first(lat, lon, regions) == FirstMatchLoop(lat, lon, regions, 1)

_land_penalty(lat, lon, regions) == LandLoop(lat, lon, regions, 1, 0)

\* round(probability, 3): the float nearest to the nearest thousandth
round3(p) == Dec(RN(p * 1000, SCALE), 1000)

\* lines 143-144, given the normalized coordinates and the four components;
\* steps lists the calls made, in order
Combine(lat, lon, lat_component, current_component, hotspot_component, land_penalty) ==
    LET base == Dec(5, 100)
    IN  IF hotspot_component = MathDomainError
        THEN [raised |-> "ValueError", msg |-> "math domain error",
              steps |-> <<"isfinite", "clamp", "_wrap_longitude", "_lat_factor",
                          "_current_factor", "_hotspot_contribution">>]
        ELSE LET unpenalised ==
                     FAdd(FAdd(FAdd(base, lat_component), current_component),
                          hotspot_component)
                 raw == FSub(unpenalised, land_penalty)
             IN  [raised |-> "none", value |-> round3(clamp(raw, 0, SCALE)),
                  lat |-> lat, lon |-> lon, raw |-> raw, sum |-> unpenalised,
                  unpenalised |-> round3(clamp(unpenalised, 0, SCALE)),
                  land_penalty |-> land_penalty,
                  steps |-> <<"isfinite", "clamp", "_wrap_longitude",
                              "_lat_factor", "_current_factor",
                              "_hotspot_contribution", "_land_penalty",
                              "clamp", "round">>]

\* lines 137-144, given the normalized coordinates
Components(lat, lon, regions) ==
    Combine(lat, lon,
            FMul(Dec(35, 100), _lat_factor(lat)),
            FMul(Dec(20, 100), _current_factor(lat, lon)),
            _hotspot_contribution(lat, lon, HOTSPOTS),
            _land_penalty(lat, lon, regions))

\* lines 134-144 of shark_probability for finite inputs, over a table of
\* land regions
Estimate(rawlat, rawlon, regions) ==
    Components(clamp(rawlat, -Deg(90), Deg(90)), _wrap_longitude(rawlon),
               regions)

shark_probability(lat, lon) ==
    IF ~isfinite(lat) \/ ~isfinite(lon)
    THEN [raised |-> "ValueError",
          msg |-> "Latitude and longitude must be finite numbers.",
          steps |-> <<"isfinite">>]
    ELSE Estimate(lat.v, lon.v, LAND_INTERIORS)

(***************************************************************************)
(* The HTTP handler                                                        *)
(***************************************************************************)
ValueError == [cls |-> "ValueError", v |-> 0]

\* float(text) on the texts the model sends
float(s) ==
    CASE s = "45.0" -> Finite(Deg(45))
      [] s = "90" -> Finite(Deg(90))
      [] s = "-20.5" -> Finite(-Dec(205, 10))
      [] s = "-141.5" -> Finite(-Dec(1415, 10))
      [] s = "91" -> Finite(Deg(91))
      [] s = "200" -> Finite(Deg(200))
      [] s = "nan" -> NaN
      [] s = "inf" -> PosInf
      [] s = "-inf" -> NegInf
      [] OTHER -> ValueError

\* parse_qs(query).get(key, []): the non-blank values given for key, in order
Get(query, key) ==
    LET kept == SelectSeq(query, LAMBDA p : p.key = key /\ p.value # "")
    IN  [i \in 1..Len(kept) |-> kept[i].value]

_send_json(status, payload) == [status |-> status, body |-> payload]

\* the payload built from the raw coordinates instead of the cleaned ones
Payload200_raw(lat, lon, result) ==
    [lat |-> lat.v, lon |-> lon.v, probability |-> result.value]

\* the payload of line 172
Payload200(lat, lon, result) ==
    [lat |-> clamp(lat.v, -Deg(90), Deg(90)),
     lon |-> _wrap_longitude(lon.v),
     probability |-> result.value]

\* the responses do_GET writes for the request target req
Handle(req) ==
    LET lats == Get(req.query, "lat")
        lons == Get(req.query, "lon")
    IN  IF req.path # "/probability"
        THEN << _send_json(404, [error |-> "not_found"]) >>
        ELSE IF \/ lats = << >>
                \/ float(lats[1]) = ValueError
                \/ lons = << >>
                \/ float(lons[1]) = ValueError
        THEN << _send_json(400,
                  [error |-> "lat and lon query params are required floats"]) >>
        ELSE LET lat == float(lats[1])
                 lon == float(lons[1])
                 \* lines 165-166 raise nothing, whatever the floats are
                 result == shark_probability(lat, lon)
             IN  IF result.raised = "ValueError"
                 THEN << _send_json(400, [error |-> result.msg]) >>
                 ELSE << _send_json(200, Payload200(lat, lon, result)) >>

(***************************************************************************)
(* Inputs                                                                  *)
(***************************************************************************)
MaxK == 1
MaxQuery == 2
MaxRegions == 2

Lats ==
    { -Deg(95), -Deg(90), -Deg(34), -Dec(255, 10), -Dec(205, 10), 0,
      Dec(255, 10), Deg(30), Deg(45), Deg(90), Deg(91) }

Lons ==
    { -Deg(180), -Deg(180) + 2, -Deg(160), -Dec(1415, 10), -Deg(110) - 2,
      -Deg(110), 0, Deg(90), Deg(120), Deg(153), Deg(180), Deg(200),
      Deg(540) }

NonFinite == { NaN, PosInf, NegInf }

Floats(S) == { Finite(n) : n \in S } \cup NonFinite

Paths == { "/probability", "/probability/", "/" }

Texts == { "45.0", "90", "-20.5", "-141.5", "91", "200", "nan", "inf",
           "-inf", "abc", "" }

Pairs == [ key : {"lat", "lon"}, value : Texts ]

Queries == UNION { [1..n -> Pairs] : n \in 0..MaxQuery }

Requests == [ path : Paths, query : Queries ]

Boxes ==
    { LandRegion(Deg(25), Deg(50), -Deg(110), -Deg(90), Dec(35, 100)),
      LandRegion(Deg(30), Deg(60), -Deg(100), -Deg(80), Dec(50, 100)),
      LandRegion(-Deg(20), Deg(5), -Deg(70), -Deg(50), Dec(40, 100)),
      LandRegion(Deg(30), Deg(30), -Deg(100), -Deg(100), 0) }

Tables == UNION { [1..n -> Boxes] : n \in 0..MaxRegions }

Points ==
    { <<Deg(30), -Deg(100)>>, <<Deg(25), -Deg(110)>>, <<Deg(50), -Deg(90)>>,
      <<Deg(25) - 1, -Deg(110)>>, <<Deg(25), -Deg(110) - 2>>,
      <<Deg(60), -Deg(80)>>, <<Deg(40), -Deg(95)>>, <<0, -Deg(60)>>,
      <<0, 0>> }

(***************************************************************************)
(* State                                                                   *)
(***************************************************************************)
VARIABLES
    phase,        \* where the program is
    request,      \* the request target being handled by the server
    responses,    \* the responses written for it
    call,         \* the arguments of a call of shark_probability
    outcome,      \* what that call returned or raised
    land_call,    \* the arguments of a call of _land_penalty
    land_result   \* what that call returned

vars == <<phase, request, responses, call, outcome, land_call, land_result>>

NoRequest == [path |-> "", query |-> << >>]

NoCall == [lat |-> NaN, lon |-> NaN]

NoOutcome == [raised |-> "pending", steps |-> << >>]

NoLandCall == [lat |-> 0, lon |-> 0, regions |-> << >>]

\* the server: run_server, listening
Init ==
    /\ phase = "listening"
    /\ request = NoRequest
    /\ responses = << >>
    /\ call = NoCall
    /\ outcome = NoOutcome
    /\ land_call = NoLandCall
    /\ land_result = 0

\* serve_forever takes the next GET request
accept(req) ==
    /\ phase = "listening"
    /\ phase' = "received"
    /\ request' = req
    /\ responses' = << >>
    /\ UNCHANGED <<call, outcome, land_call, land_result>>

do_GET ==
    /\ phase = "received"
    /\ phase' = "responded"
    /\ responses' = responses \o Handle(request)
    /\ UNCHANGED <<request, call, outcome, land_call, land_result>>

\* the handler has returned; the server goes back to listening
finish ==
    /\ phase = "responded"
    /\ phase' = "listening"
    /\ request' = NoRequest
    /\ responses' = << >>
    /\ UNCHANGED <<call, outcome, land_call, land_result>>

Next ==
    \/ \E req \in Requests : accept(req)
    \/ do_GET
    \/ finish

Spec == Init /\ [][Next]_vars

\* the estimator on its own: one call of shark_probability(lat, lon)
InitEst ==
    /\ phase = "call"
    /\ request = NoRequest
    /\ responses = << >>
    /\ call \in [lat : Floats(Lats), lon : Floats(Lons)]
    /\ outcome = NoOutcome
    /\ land_call = NoLandCall
    /\ land_result = 0

call_shark_probability ==
    /\ phase = "call"
    /\ phase' = "returned"
    /\ outcome' = shark_probability(call.lat, call.lon)
    /\ UNCHANGED <<request, responses, call, land_call, land_result>>

NextEst == call_shark_probability

SpecEst == InitEst /\ [][NextEst]_vars

\* _land_penalty on its own: one call over a table of land regions
InitLand ==
    /\ phase = "call"
    /\ request = NoRequest
    /\ responses = << >>
    /\ call = NoCall
    /\ outcome = NoOutcome
    /\ land_call \in { [lat |-> pt[1], lon |-> pt[2], regions |-> t] :
                          pt \in Points, t \in Tables }
    /\ land_result = 0

call_land_penalty ==
    /\ phase = "call"
    /\ phase' = "returned"
    /\ land_result' = _land_penalty(land_call.lat, land_call.lon,
                                    land_call.regions)
    /\ UNCHANGED <<request, responses, call, outcome, land_call>>

NextLand == call_land_penalty

SpecLand == InitLand /\ [][NextLand]_vars

(***************************************************************************)
(* Properties                                                              *)
(***************************************************************************)
Returned == phase = "returned"

FiniteCall == isfinite(call.lat) /\ isfinite(call.lon)

CallAt(lat, lon) == call = [lat |-> Finite(lat), lon |-> Finite(lon)]

\* two calls end the same way: both raise, or both return the same value
SameResult(a, b) ==
    /\ a.raised = b.raised
    /\ a.raised = "none" => a.value = b.value

\* C1: for finite latitude and longitude shark_probability returns a value
\* between 0 and 1 that is a whole number of thousandths.
C1_ProbabilityInRange ==
    Returned /\ FiniteCall =>
        /\ outcome.raised = "none"
        /\ 0 <= outcome.value /\ outcome.value <= SCALE
        /\ \E m \in 0..1000 : outcome.value = Dec(m, 1000)

\* C2: a call with a NaN or infinite coordinate raises ValueError before
\* normalization or any sub-score; a call with finite coordinates raises
\* nothing.
C2_InvalidInputOnly ==
    Returned =>
        IF FiniteCall
        THEN outcome.raised = "none"
        ELSE outcome.raised = "ValueError" /\ outcome.steps = <<"isfinite">>

\* C3: shark_probability(lat, lon) equals shark_probability(lat, lon + 360*k)
\* for every integer k, the seam longitudes included.
C3_LongitudeWrap ==
    Returned /\ FiniteCall =>
        \A k \in -MaxK..MaxK :
            LET shifted == call.lon.v + Deg(360) * k
            IN  Fl(shifted) = shifted =>
                    SameResult(outcome,
                               shark_probability(call.lat, Finite(shifted)))

NormLat(lat) ==
    IF lat > Deg(90) THEN Deg(90) ELSE IF lat < -Deg(90) THEN -Deg(90) ELSE lat

\* C4: shark_probability(lat, lon) equals the result at the latitude clamped
\* to [-90, 90] and the wrapped longitude; (91, 200) gives the result of
\* (90, -160).
C4_DependsOnNormalized ==
    Returned /\ FiniteCall =>
        /\ SameResult(outcome,
                      shark_probability(Finite(NormLat(call.lat.v)),
                                        Finite(_wrap_longitude(call.lon.v))))
        /\ SameResult(outcome,
                      shark_probability(Finite(NormLat(call.lat.v)), call.lon))
        /\ CallAt(Deg(91), Deg(200)) =>
               SameResult(outcome,
                          shark_probability(Finite(Deg(90)), Finite(-Deg(160))))

C4_Witness ==
    /\ Returned /\ CallAt(Deg(91), Deg(200))
    /\ outcome.raised = "none"
    /\ outcome.lat = Deg(90) /\ outcome.lon = -Deg(160)

FiniteTexts == { "45.0", "90", "-20.5", "-141.5", "91", "200" }

\* the value a query gives for key: its first non-blank one
Given(query, key) ==
    SelectSeq(query, LAMBDA p : p.key = key /\ p.value # "")

\* lat or lon is missing, non-numeric or non-finite
BadCoordinate(req) ==
    \E key \in {"lat", "lon"} :
        \/ Given(req.query, key) = << >>
        \/ Given(req.query, key)[1].value \notin FiniteTexts

Responded == phase = "responded"

\* C5: every GET gets exactly one response: 404 not_found iff the path is
\* not /probability; otherwise 400 with an error body iff lat or lon is
\* missing, non-numeric or non-finite; otherwise 200.
C5_StatusOfEveryRequest ==
    Responded =>
        /\ Len(responses) = 1
        /\ LET status == responses[1].status
               body == responses[1].body
               notfound == request.path # "/probability"
           IN  /\ status = 404 <=> notfound
               /\ status = 404 => body = [error |-> "not_found"]
               /\ ~notfound =>
                      /\ status = 400 <=> BadCoordinate(request)
                      /\ status = 400 => DOMAIN body = {"error"}
                      /\ ~BadCoordinate(request) => status = 200

Is200 == Responded /\ Len(responses) = 1 /\ responses[1].status = 200

\* C6: a 200 response reports the clamped latitude, the wrapped longitude
\* and shark_probability of the request's coordinates, and the probability
\* is the one the estimator gives for the reported pair.
C6_ReportedTriple ==
    Is200 =>
        LET L == float(Given(request.query, "lat")[1].value)
            N == float(Given(request.query, "lon")[1].value)
            body == responses[1].body
            again == shark_probability(Finite(body.lat), Finite(body.lon))
        IN  /\ body.lat = NormLat(L.v)
            /\ body.lon = _wrap_longitude(N.v)
            /\ body.probability = shark_probability(L, N).value
            /\ again.raised = "none"
            /\ again.value = body.probability

C6_Witness ==
    /\ Is200
    /\ Given(request.query, "lat")[1].value = "91"
    /\ Given(request.query, "lon")[1].value = "200"
    /\ responses[1].body.lat = Deg(90)
    /\ responses[1].body.lon = -Deg(160)

\* C7: the normalized latitude lies in [-90, 90] and the normalized
\* longitude in [-180, 180): never below -180, never +180 or more.
C7_NormalizedRange ==
    Returned /\ outcome.raised = "none" =>
        /\ -Deg(90) <= outcome.lat /\ outcome.lat <= Deg(90)
        /\ -Deg(180) <= outcome.lon /\ outcome.lon < Deg(180)

\* C8 as stated: at (45, 90) the probability is lower by at least 0.50 than
\* the probability computed without the land penalty.
C8_ReducedByHalf ==
    Returned /\ CallAt(Deg(45), Deg(90)) =>
        /\ outcome.raised = "none"
        /\ outcome.unpenalised - outcome.value >= Dec(50, 100)

\* C8 amended: at (45, 90) the 0.50 penalty of the Eurasian box is taken
\* from the sum before clamping; the probability returned is 0, so it is
\* lower than the probability without the penalty by the whole of that
\* probability, which is positive and below 0.50.
C8_ClampedToZero ==
    Returned /\ CallAt(Deg(45), Deg(90)) =>
        /\ outcome.raised = "none"
        /\ outcome.land_penalty = Dec(50, 100)
        /\ outcome.raw = FSub(outcome.sum, Dec(50, 100))
        /\ outcome.value = 0
        /\ 0 < outcome.unpenalised /\ outcome.unpenalised < Dec(50, 100)

C8_Witness ==
    /\ Returned /\ CallAt(Deg(45), Deg(90))
    /\ outcome.raised = "none"
    /\ outcome.land_penalty = Dec(50, 100)
    /\ outcome.raw < 0

\* C9 as stated: shark_probability(-25.5, 153.0) lies in [0.85, 1.0].
C9_HotspotCentreHigh ==
    Returned /\ CallAt(-Dec(255, 10), Deg(153)) =>
        /\ outcome.raised = "none"
        /\ Dec(85, 100) <= outcome.value /\ outcome.value <= SCALE

\* C9 amended: shark_probability(-25.5, 153.0) is about 0.526: it lies in
\* [0.52, 0.53].
C9_HotspotCentreValue ==
    Returned /\ CallAt(-Dec(255, 10), Deg(153)) =>
        /\ outcome.raised = "none"
        /\ Dec(52, 100) <= outcome.value /\ outcome.value <= Dec(53, 100)

C9_Witness ==
    /\ Returned /\ CallAt(-Dec(255, 10), Deg(153))
    /\ outcome.raised = "none"
    /\ outcome.land_penalty = 0
    /\ outcome.value > 0

\* the point lies in the box, the four edges included
Inside(b, lat, lon) ==
    b.lat_min <= lat /\ lat <= b.lat_max /\ b.lon_min <= lon /\ lon <= b.lon_max

RECURSIVE SumPenalties(_)
SumPenalties(boxes) ==
    IF boxes = << >> THEN 0
    ELSE FAdd(SumPenalties(SubSeq(boxes, 1, Len(boxes) - 1)),
              boxes[Len(boxes)].penalty)

Matching(regions, lat, lon) ==
    SelectSeq(regions, LAMBDA b : Inside(b, lat, lon))

\* C10: _land_penalty is the sum of the penalties of all boxes that contain
\* the point, edges included, 0 when there is none; overlapping boxes all
\* count, so one more containing box never lowers the penalty and never
\* raises the probability.
C10_LandPenaltySum ==
    Returned =>
        LET lat == land_call.lat
            lon == land_call.lon
            regions == land_call.regions
            before == Estimate(lat, lon, regions)
        IN  /\ land_result = SumPenalties(Matching(regions, lat, lon))
            /\ Matching(regions, lat, lon) = << >> => land_result = 0
            /\ \A b \in Boxes :
                   Inside(b, lat, lon) =>
                       LET more == Append(regions, b)
                           after == Estimate(lat, lon, more)
                       IN  /\ _land_penalty(lat, lon, more) =
                                  FAdd(land_result, b.penalty)
                           /\ _land_penalty(lat, lon, more) >= land_result
                           /\ before.raised = "none"
                           /\ after.raised = "none"
                           /\ after.value <= before.value

C10_Witness ==
    /\ Returned
    /\ Len(Matching(land_call.regions, land_call.lat, land_call.lon)) = 2
    /\ land_call.regions[1] # land_call.regions[2]
    /\ land_result = FAdd(land_call.regions[1].penalty,
                          land_call.regions[2].penalty)
    /\ land_result > land_call.regions[1].penalty
    /\ land_result > land_call.regions[2].penalty

====
